---- MODULE Spec2Model ----
(***************************************************************************)
(* WebSocketClient (frontend/src/utils/websocket.ts): the resilient        *)
(* real-time transport.  One action per public method, timer callback and  *)
(* socket callback; every action is a whole JavaScript task (run to        *)
(* completion on the single event loop).                                   *)
(*                                                                         *)
(* The browser WebSocket objects are the environment.  A socket is a       *)
(* record; `ws' is the socket the client's field refers to, `stale' counts *)
(* the sockets the client no longer refers to but whose callbacks (which   *)
(* close over the client, not over the socket) can still fire.             *)
(***************************************************************************)
EXTENDS Integers, Sequences, FiniteSets, TLC

(* ---- program constants ---- *)
maxReconnectAttempts == 10
reconnectInterval == 1000
NORMAL_CLOSURE == 1000
ABNORMAL_CLOSURE == 1006

(* ---- bounds of the model ---- *)
MaxQueue == 2
MaxTimers == 2
MaxStale == 1
MaxListeners == 3
MaxInits == 2

(* ---- data ---- *)
(* payloads handed to send(): two JSON-serialisable objects and one for    *)
(* which JSON.stringify throws (a circular structure)                      *)
Circular == "circular"
Data == {"a", "b", Circular}
PingFrame == "ping"
(* the request a 'connected' listener sends to get a fresh snapshot *)
Snapshot == "snapshot"
(* inbound frames by their type: the heartbeat pair, two types that        *)
(* RealtimeService recognises, one it does not, the type ChatService       *)
(* listens for, and a frame that JSON.parse rejects                        *)
Frames == {"pong", "ping", "task_update", "agent_update", "app",
           "chat_response", "malformed"}

(* ---- callbacks handed to on(): one that returns, one that throws, one   *)
(* that unsubscribes itself (off(event, itself)) and returns               *)
Callbacks == {"f", "thrower", "quitter"}
(* RealtimeService.on also gets one that unsubscribes itself and then      *)
(* throws                                                                  *)
RtCallbacks == Callbacks \cup {"quitThrower"}
(* a 'connected' listener that sends a snapshot request *)
Sender == "sender"
(* the listeners RealtimeService.setupWebSocket and                        *)
(* ChatService.initWebSocket register on the client                        *)
RtListeners == {"rtConnected", "rtDisconnected", "rtMessage", "rtError"}
ChatListeners == {"chatConnected", "chatDisconnected", "chatMessage",
                  "chatError"}
(* the events of WebSocketClient, and those callers listen to here *)
WsEvents == {"connected", "disconnected", "message", "error",
             "max_reconnect_reached"}
ListenEvents == {"message", "disconnected", "error"}
(* the events RealtimeService emits for the frames above, and a channel    *)
(* callers subscribe to for frames of other types                          *)
RtEvents == {"task_updated", "agent_updated", "unknown"}

(* ---- sockets (browser WebSocket, as seen through readyState) ---- *)
Socket(rs, code, byDisc) ==
    [readyState |-> rs, closeCode |-> code, byDisconnect |-> byDisc]
NoSocket == Socket("NULL", 0, FALSE)
NewSocket == Socket("CONNECTING", 0, FALSE)
OpenSocket == Socket("OPEN", 0, FALSE)
ClosedSocket == Socket("CLOSED", 0, FALSE)

(* the sockets that still have events to deliver *)
LiveSockets ==
    { NewSocket, OpenSocket,
      Socket("CLOSING", NORMAL_CLOSURE, TRUE),
      Socket("CLOSING", ABNORMAL_CLOSURE, TRUE),
      Socket("CLOSING", ABNORMAL_CLOSURE, FALSE) }

Live(s) == s \in LiveSockets

(* WebSocket.close(): a CONNECTING socket fails (close event 1006), an     *)
(* OPEN one starts the closing handshake (close event carries the code     *)
(* sent, 1000); CLOSING and CLOSED sockets are left alone.                 *)
Close(s, byDisc) ==
    CASE s.readyState = "CONNECTING" -> Socket("CLOSING", ABNORMAL_CLOSURE, byDisc)
      [] s.readyState = "OPEN" -> Socket("CLOSING", NORMAL_CLOSURE, byDisc)
      [] OTHER -> s

VARIABLES
    ws,                 \* this.ws
    isConnecting,       \* this.isConnecting
    reconnectAttempts,  \* this.reconnectAttempts
    connectionTimer,    \* this.connectionTimer: "null", "armed", "fired"
    heartbeatTimer,     \* this.heartbeatTimer # null
    reconnectTimers,    \* pending setTimeout callbacks of reconnect()
    messageQueue,       \* this.messageQueue
    stale,              \* live sockets the client no longer refers to
    hung,               \* the event loop is stuck in flushMessageQueue
    awaitingPong,       \* a ping went out on ws and no pong came back yet
    torn,               \* disconnect() was called, connect() not since
    maxReached,         \* emissions of max_reconnect_reached since connect()
    listeners,          \* WebSocketClient.listeners
    subscribers,        \* RealtimeService.subscribers
    rtIsConnected,      \* RealtimeService.isConnected
    rtReconnectTimer,   \* the timer of RealtimeService.reconnectTimer is pending
    chatWsClient,       \* ChatService.wsClient # null
    last                \* what the last task did

vars == <<ws, isConnecting, reconnectAttempts, connectionTimer, heartbeatTimer,
          reconnectTimers, messageQueue, stale, hung, awaitingPong, torn,
          maxReached, listeners, subscribers, rtIsConnected,
          rtReconnectTimer, chatWsClient, last>>

(* ---- the client as a record, threaded through the code of a task ---- *)
Client ==
    [ws |-> ws, isConnecting |-> isConnecting,
     reconnectAttempts |-> reconnectAttempts,
     connectionTimer |-> connectionTimer, heartbeatTimer |-> heartbeatTimer,
     reconnectTimers |-> reconnectTimers, messageQueue |-> messageQueue,
     listeners |-> listeners, subscribers |-> subscribers,
     rtIsConnected |-> rtIsConnected, rtReconnectTimer |-> rtReconnectTimer,
     chatWsClient |-> chatWsClient,
     data |-> "none",          \* the frame being dispatched
     notified |-> <<>>,        \* ChatService config callbacks called
     hung |-> FALSE,
     thrown |-> FALSE,         \* an exception is propagating
     invoked |-> <<>>,         \* <<event, callback>> calls made in this task
     orphan |-> NoSocket,      \* socket dropped from this.ws by this task
     created |-> FALSE,        \* new WebSocket(...) ran in this task
     emitted |-> <<>>,         \* events passed to emit() in this task
     transmitted |-> <<>>,     \* payloads handed to ws.send() in this task
     delay |-> 0,              \* delay of the setTimeout of reconnect()
     ret |-> "void"]

(* ---- the two listener registries (same code in both classes) ---- *)
on(registry, event, callback) ==
    [registry EXCEPT ![event] = Append(@, callback)]

IndexOf(callbacks, callback) ==
    IF \E i \in 1..Len(callbacks) : callbacks[i] = callback
    THEN CHOOSE i \in 1..Len(callbacks) :
             /\ callbacks[i] = callback
             /\ \A j \in 1..(i - 1) : callbacks[j] # callback
    ELSE 0

Splice(callbacks, i) ==
    [j \in 1..(Len(callbacks) - 1) |->
        IF j < i THEN callbacks[j] ELSE callbacks[j + 1]]

offEveryOccurrence(registry, event, callback) ==
    [registry EXCEPT ![event] = SelectSeq(@, LAMBDA cb : cb # callback)]

off(registry, event, callback) ==
    LET index == IndexOf(registry[event], callback)
    IN  IF index > 0
        THEN [registry EXCEPT ![event] = Splice(@, index)]
        ELSE registry

(* RealtimeService.emit: the same loop with each call in try/catch, so a   *)
(* callback that throws is logged and the loop goes on                     *)
RECURSIVE forEachSubscriber(_, _, _, _)
forEachSubscriber(c, event, i, n) ==
    IF i > n \/ i > Len(c.subscribers[event]) THEN c
    ELSE LET callback == c.subscribers[event][i]
             c1 == [c EXCEPT !.invoked = Append(@, <<event, callback>>)]
         IN  IF callback \in {"quitter", "quitThrower"}
             THEN forEachSubscriber(
                      [c1 EXCEPT !.subscribers = off(@, event, callback)],
                      event, i + 1, n)
             ELSE forEachSubscriber(c1, event, i + 1, n)

(* if (callbacks): an event nobody has subscribed to has no list *)
rtEmit(c, event) ==
    IF event \notin DOMAIN c.subscribers THEN c
    ELSE forEachSubscriber([c EXCEPT !.emitted = Append(@, event)],
                           event, 1, Len(c.subscribers[event]))

(* RealtimeService.handleMessage: a switch on the frame's type (frames     *)
(* carry their data payload); a type without a case is logged and nothing  *)
(* is emitted                                                              *)
handleMessage(c, frame) ==
    CASE frame = "agent_update" -> rtEmit(c, "agent_updated")
      [] frame = "task_update" -> rtEmit(c, "task_updated")
      [] OTHER -> c

(* RealtimeService.scheduleReconnect: the pending timer, if any, is        *)
(* cleared and a new one is set                                            *)
scheduleReconnect(c) == [c EXCEPT !.rtReconnectTimer = TRUE]

RECURSIVE send(_, _)

(* callbacks.forEach(callback => callback(data)) over the live array: the  *)
(* index runs to the length the array had at the start, an index past the  *)
(* current end is skipped, an exception ends the loop and propagates.      *)
RECURSIVE forEachListener(_, _, _, _)
forEachListener(c, event, i, n) ==
    IF i > n \/ i > Len(c.listeners[event]) THEN c
    ELSE LET callback == c.listeners[event][i]
             c1 == [c EXCEPT !.invoked = Append(@, <<event, callback>>)]
             c2 ==
               CASE callback = "quitter" ->
                      [c1 EXCEPT !.listeners = off(@, event, callback)]
                 [] callback = Sender -> send(c1, Snapshot)
                 [] callback = "rtConnected" ->
                      rtEmit([c1 EXCEPT !.rtIsConnected = TRUE],
                             "connection_changed")
                 [] callback = "rtDisconnected" ->
                      scheduleReconnect(
                          rtEmit([c1 EXCEPT !.rtIsConnected = FALSE],
                                 "connection_changed"))
                 [] callback = "rtMessage" -> handleMessage(c1, c1.data)
                 [] callback = "rtError" -> rtEmit(c1, "error")
                 [] callback = "chatConnected" ->
                      [c1 EXCEPT !.notified = Append(@, "onConnected")]
                 [] callback = "chatDisconnected" ->
                      [c1 EXCEPT !.notified = Append(@, "onDisconnected")]
                 [] callback = "chatMessage" ->
                      IF c1.data = "chat_response"
                      THEN [c1 EXCEPT !.notified = Append(@, "onMessage")]
                      ELSE c1
                 [] callback = "chatError" ->
                      [c1 EXCEPT !.notified = Append(@, "onError")]
                 [] OTHER -> c1
         IN  IF callback = "thrower" THEN [c1 EXCEPT !.thrown = TRUE]
             ELSE forEachListener(c2, event, i + 1, n)

emit(c, event) ==
    IF c.thrown THEN c
    ELSE forEachListener([c EXCEPT !.emitted = Append(@, event)],
                         event, 1, Len(c.listeners[event]))

isConnected(c) == c.ws.readyState = "OPEN"

clearConnectionTimer(c) == [c EXCEPT !.connectionTimer = "null"]

clearHeartbeat(c) == [c EXCEPT !.heartbeatTimer = FALSE]

startHeartbeat(c) == [clearHeartbeat(c) EXCEPT !.heartbeatTimer = TRUE]

(* reconnect() with a delay that shrinks as the attempt count grows *)
reconnectShrinkingDelay(c) ==
    IF c.thrown THEN c
    ELSE IF c.reconnectAttempts < maxReconnectAttempts
    THEN [c EXCEPT !.reconnectAttempts = @ + 1, !.reconnectTimers = @ + 1,
                   !.delay = reconnectInterval
                             * (maxReconnectAttempts - c.reconnectAttempts)]
    ELSE emit(c, "max_reconnect_reached")

reconnect(c) ==
    IF c.thrown THEN c
    ELSE IF c.reconnectAttempts < maxReconnectAttempts
    THEN [c EXCEPT !.reconnectAttempts = @ + 1, !.reconnectTimers = @ + 1,
                   !.delay = reconnectInterval * (c.reconnectAttempts + 1)]
    ELSE emit(c, "max_reconnect_reached")

send(c, data) ==
    IF c.thrown THEN c
    ELSE IF c.ws.readyState = "OPEN"
    THEN IF data = Circular
         THEN LET c1 == emit(c, "error")
              IN  [c1 EXCEPT !.ret = IF c1.thrown THEN "throws" ELSE "false"]
         ELSE [c EXCEPT !.transmitted = Append(@, data), !.ret = "true"]
    ELSE [c EXCEPT !.messageQueue = Append(@, data), !.ret = "false"]

(* the loop of flushMessageQueue on an OPEN socket: shift, then send *)
RECURSIVE sendAll(_)
sendAll(c) ==
    IF c.thrown \/ c.messageQueue = <<>> THEN c
    ELSE sendAll(send([c EXCEPT !.messageQueue = Tail(@)],
                      Head(c.messageQueue)))

(* while (queue.length > 0) { m = queue.shift(); if (m) send(m) }: with    *)
(* the socket OPEN every message goes through send() in order; otherwise   *)
(* send() pushes the message back and the loop never ends.                 *)
flushMessageQueue(c) ==
    IF c.messageQueue = <<>> THEN c
    ELSE IF c.ws.readyState = "OPEN"
         THEN [sendAll(c) EXCEPT !.ret = "void"]
         ELSE [c EXCEPT !.hung = TRUE]

(* new WebSocket(url) throws only for a malformed url; the url is fixed at  *)
(* construction and well formed, so the catch branch is not taken.         *)
connect(c) ==
    IF c.isConnecting \/ isConnected(c)
    THEN c
    ELSE [c EXCEPT !.isConnecting = TRUE,
                   !.orphan = IF Live(c.ws) THEN c.ws ELSE c.orphan,
                   !.ws = NewSocket,
                   !.created = TRUE,
                   !.connectionTimer = "armed"]

(* disconnect() that leaves the queue as it is *)
disconnectKeepsQueue(c) ==
    LET c1 == clearHeartbeat(clearConnectionTimer(c))
        c2 == IF c1.ws # NoSocket
              THEN [c1 EXCEPT !.orphan = Close(c1.ws, TRUE), !.ws = NoSocket]
              ELSE c1
    IN  [c2 EXCEPT !.isConnecting = FALSE]

disconnect(c) ==
    LET c1 == clearHeartbeat(clearConnectionTimer(c))
        c2 == IF c1.ws # NoSocket
              THEN [c1 EXCEPT !.orphan = Close(c1.ws, TRUE), !.ws = NoSocket]
              ELSE c1
    IN  [c2 EXCEPT !.messageQueue = <<>>, !.isConnecting = FALSE]

(* onopen that notifies the 'connected' listeners before it flushes *)
onopenEmitsFirst(c) ==
    LET c1 == [c EXCEPT !.isConnecting = FALSE, !.reconnectAttempts = 0]
        c2 == emit(startHeartbeat(clearConnectionTimer(c1)), "connected")
    IN  flushMessageQueue(c2)

(* onopen that leaves the attempt count as it is *)
onopenKeepsAttempts(c) ==
    LET c1 == [c EXCEPT !.isConnecting = FALSE]
        c2 == flushMessageQueue(startHeartbeat(clearConnectionTimer(c1)))
    IN  IF c2.hung THEN c2 ELSE emit(c2, "connected")

onopen(c) ==
    LET c1 == [c EXCEPT !.isConnecting = FALSE, !.reconnectAttempts = 0]
        c2 == flushMessageQueue(startHeartbeat(clearConnectionTimer(c1)))
    IN  IF c2.hung THEN c2 ELSE emit(c2, "connected")

onerror(c) ==
    emit(clearConnectionTimer([c EXCEPT !.isConnecting = FALSE]), "error")

onclose(c, code) ==
    LET c1 == clearHeartbeat(clearConnectionTimer(
                  [c EXCEPT !.isConnecting = FALSE]))
        c2 == emit(c1, "disconnected")
    IN  IF code # NORMAL_CLOSURE THEN reconnect(c2) ELSE c2

onmessageMalformedDelivered(c, frame) ==
    CASE frame = "pong" -> c
      [] OTHER -> LET c1 == emit([c EXCEPT !.data = frame], "message")
                  IN  IF c1.thrown
                      THEN emit([c1 EXCEPT !.thrown = FALSE], "error")
                      ELSE c1

(* try { parse; pong returns; emit('message') } catch { emit('error') }:   *)
(* the catch also takes what a 'message' listener throws                   *)
onmessage(c, frame) ==
    CASE frame = "malformed" -> emit(c, "error")
      [] frame = "pong" -> c
      [] OTHER -> LET c1 == emit([c EXCEPT !.data = frame], "message")
                  IN  IF c1.thrown
                      THEN emit([c1 EXCEPT !.thrown = FALSE], "error")
                      ELSE c1

(* the field keeps the handle of the timer that fired ("fired") until the  *)
(* next clearConnectionTimer()                                             *)
connectionTimeout(c) ==
    LET c0 == [c EXCEPT !.connectionTimer = "fired"]
    IN  IF c0.ws.readyState = "CONNECTING"
        THEN reconnect(emit([c0 EXCEPT !.ws = Close(c0.ws, FALSE)], "error"))
        ELSE c0

heartbeat(c) ==
    IF isConnected(c) THEN send(c, PingFrame) ELSE clearHeartbeat(c)

(* ---- the environment's bag of stale sockets ---- *)
StaleAdd(st, s) == IF Live(s) THEN [st EXCEPT ![s] = @ + 1] ELSE st
StaleDel(st, s) == [st EXCEPT ![s] = @ - 1]

StaleTotal(st) ==
    st[NewSocket] + st[OpenSocket]
    + st[Socket("CLOSING", NORMAL_CLOSURE, TRUE)]
    + st[Socket("CLOSING", ABNORMAL_CLOSURE, TRUE)]
    + st[Socket("CLOSING", ABNORMAL_CLOSURE, FALSE)]

(* ---- applying the result of a task ---- *)
Apply(c, st, op, sock, arg) ==
    /\ StaleTotal(StaleAdd(st, c.orphan)) <= MaxStale
    /\ c.reconnectTimers <= MaxTimers
    /\ Len(c.messageQueue) <= MaxQueue
    /\ ws' = c.ws
    /\ isConnecting' = c.isConnecting
    /\ reconnectAttempts' = c.reconnectAttempts
    /\ connectionTimer' = c.connectionTimer
    /\ heartbeatTimer' = c.heartbeatTimer
    /\ reconnectTimers' = c.reconnectTimers
    /\ messageQueue' = c.messageQueue
    /\ hung' = c.hung
    /\ listeners' = c.listeners
    /\ subscribers' = c.subscribers
    /\ rtIsConnected' = c.rtIsConnected
    /\ rtReconnectTimer' = c.rtReconnectTimer
    /\ chatWsClient' = c.chatWsClient
    /\ stale' = StaleAdd(st, c.orphan)
    /\ last' = [op |-> op, sock |-> sock, arg |-> arg,
                attempts |-> reconnectAttempts, created |-> c.created,
                emitted |-> c.emitted, transmitted |-> c.transmitted,
                delay |-> c.delay, invoked |-> c.invoked,
                thrown |-> c.thrown, notified |-> c.notified,
                ret |-> c.ret]

Emits(c, event) == \E i \in 1..Len(c.emitted) : c.emitted[i] = event

(* ghost bookkeeping for tasks that are not connect() or disconnect() *)
Ghosts(c) ==
    /\ torn' = torn
    /\ maxReached' = IF Emits(c, "max_reconnect_reached") /\ maxReached < 2
                     THEN maxReached + 1 ELSE maxReached

(* the client, and the services' own fields, after construction *)
Constructed ==
    /\ ws = NoSocket
    /\ isConnecting = FALSE
    /\ reconnectAttempts = 0
    /\ connectionTimer = "null"
    /\ heartbeatTimer = FALSE
    /\ reconnectTimers = 0
    /\ messageQueue = <<>>
    /\ stale = [s \in LiveSockets |-> 0]
    /\ hung = FALSE
    /\ awaitingPong = FALSE
    /\ torn = FALSE
    /\ maxReached = 0
    /\ subscribers = [e \in RtEvents |-> <<>>]
    /\ rtIsConnected = FALSE
    /\ rtReconnectTimer = FALSE
    /\ chatWsClient = FALSE
    /\ last = [op |-> "init", sock |-> NoSocket, arg |-> "none",
               attempts |-> 0, created |-> FALSE,
               emitted |-> <<>>, transmitted |-> <<>>,
               delay |-> 0, invoked |-> <<>>, thrown |-> FALSE,
               notified |-> <<>>, ret |-> "void"]

Init ==
    /\ Constructed
    /\ listeners = [e \in WsEvents |-> <<>>]

(* ---- the caller ---- *)
Connect ==
    /\ ~hung
    /\ LET c == connect(Client) IN
         /\ Apply(c, stale, "connect", ws, "none")
         /\ awaitingPong' = (awaitingPong /\ ~c.created)
    /\ torn' = FALSE
    /\ maxReached' = 0

Disconnect ==
    /\ ~hung
    /\ Apply(disconnect(Client), stale, "disconnect", ws, messageQueue)
    /\ awaitingPong' = FALSE
    /\ torn' = TRUE
    /\ UNCHANGED maxReached

Send(data) ==
    /\ ~hung
    /\ LET c == send(Client, data) IN
         /\ Apply(c, stale, "send", ws, data)
         /\ Ghosts(c)
    /\ UNCHANGED awaitingPong

(* ---- timers ---- *)
ConnectionTimerFires ==
    /\ ~hung
    /\ connectionTimer = "armed"
    /\ LET c == connectionTimeout(Client) IN
         /\ Apply(c, stale, "connectionTimer", ws, "none")
         /\ Ghosts(c)
    /\ UNCHANGED awaitingPong

HeartbeatFires ==
    /\ ~hung
    /\ heartbeatTimer
    /\ LET c == heartbeat(Client) IN
         /\ Apply(c, stale, "heartbeat", ws, "none")
         /\ Ghosts(c)
         /\ awaitingPong' = (awaitingPong \/ c.transmitted # <<>>)

ReconnectTimerFires ==
    /\ ~hung
    /\ reconnectTimers > 0
    /\ LET c == connect([Client EXCEPT !.reconnectTimers = @ - 1]) IN
         /\ Apply(c, stale, "reconnectTimer", ws, "none")
         /\ Ghosts(c)
         /\ awaitingPong' = (awaitingPong /\ ~c.created)

(* ---- socket events: on the current socket or on a stale one ---- *)
CurOpen ==
    /\ ~hung
    /\ ws.readyState = "CONNECTING"
    /\ LET c == onopen([Client EXCEPT !.ws = OpenSocket]) IN
         /\ Apply(c, stale, "onopen", ws, "none")
         /\ Ghosts(c)
    /\ awaitingPong' = FALSE

StaleOpen ==
    /\ ~hung
    /\ stale[NewSocket] > 0
    /\ LET c == onopen(Client) IN
         /\ Apply(c, StaleAdd(StaleDel(stale, NewSocket), OpenSocket),
                  "onopen", NewSocket, "none")
         /\ Ghosts(c)
    /\ UNCHANGED awaitingPong

(* the close event a socket can deliver: a failed CONNECTING socket and a  *)
(* dropped OPEN one carry 1006 (after an error event), the server can      *)
(* close an OPEN socket normally, a CLOSING socket carries its close code  *)
CloseCodes(s) ==
    CASE s.readyState = "CONNECTING" -> {ABNORMAL_CLOSURE}
      [] s.readyState = "OPEN" -> {NORMAL_CLOSURE, ABNORMAL_CLOSURE}
      [] s.readyState = "CLOSING" -> {s.closeCode}
      [] OTHER -> {}

(* the error event and the close event are dispatched one after the       *)
(* other: what the error handler throws does not reach the close handler   *)
closed(c, code) ==
    IF code = ABNORMAL_CLOSURE
    THEN onclose([onerror(c) EXCEPT !.thrown = FALSE], code)
    ELSE onclose(c, code)

CurClosed(code) ==
    /\ ~hung
    /\ code \in CloseCodes(ws)
    /\ LET c == closed([Client EXCEPT !.ws = ClosedSocket], code) IN
         /\ Apply(c, stale, "onclose", ws, code)
         /\ Ghosts(c)
    /\ awaitingPong' = FALSE

StaleClosed(s, code) ==
    /\ ~hung
    /\ stale[s] > 0
    /\ code \in CloseCodes(s)
    /\ LET c == closed(Client, code) IN
         /\ Apply(c, StaleDel(stale, s), "onclose", s, code)
         /\ Ghosts(c)
    /\ UNCHANGED awaitingPong

CurMessage(frame) ==
    /\ ~hung
    /\ ws.readyState = "OPEN"
    /\ LET c == onmessage(Client, frame) IN
         /\ Apply(c, stale, "onmessage", ws, frame)
         /\ Ghosts(c)
    /\ awaitingPong' = (awaitingPong /\ frame # "pong")

StaleMessage(frame) ==
    /\ ~hung
    /\ stale[OpenSocket] > 0
    /\ LET c == onmessage(Client, frame) IN
         /\ Apply(c, stale, "onmessage", OpenSocket, frame)
         /\ Ghosts(c)
    /\ UNCHANGED awaitingPong

Next ==
    \/ Connect
    \/ Disconnect
    \/ \E data \in Data : Send(data)
    \/ ConnectionTimerFires
    \/ HeartbeatFires
    \/ ReconnectTimerFires
    \/ CurOpen
    \/ StaleOpen
    \/ \E code \in {NORMAL_CLOSURE, ABNORMAL_CLOSURE} : CurClosed(code)
    \/ \E s \in LiveSockets, code \in {NORMAL_CLOSURE, ABNORMAL_CLOSURE} :
           StaleClosed(s, code)
    \/ \E frame \in Frames : CurMessage(frame)
    \/ \E frame \in Frames : StaleMessage(frame)

Spec == Init /\ [][Next]_vars

(* ---- the listener registries and the dispatch of inbound frames ---- *)
RECURSIVE Registered(_, _)
Registered(registry, events) ==
    IF events = {} THEN 0
    ELSE LET e == CHOOSE x \in events : TRUE
         IN  Len(registry[e]) + Registered(registry, events \ {e})

Registrations(c) ==
    Registered(c.listeners, WsEvents) + Registered(c.subscribers, RtEvents)

On(event, callback) ==
    /\ ~hung
    /\ LET c == [Client EXCEPT !.listeners = on(@, event, callback)] IN
         /\ Registrations(c) <= MaxListeners
         /\ Apply(c, stale, "on", ws, <<event, callback>>)
         /\ Ghosts(c)
    /\ UNCHANGED awaitingPong

Off(event, callback) ==
    /\ ~hung
    /\ LET c == [Client EXCEPT !.listeners = off(@, event, callback)] IN
         /\ Apply(c, stale, "off", ws, <<event, callback>>)
         /\ Ghosts(c)
    /\ UNCHANGED awaitingPong

RtOn(event, callback) ==
    /\ ~hung
    /\ LET c == [Client EXCEPT !.subscribers = on(@, event, callback)] IN
         /\ Registrations(c) <= MaxListeners
         /\ Apply(c, stale, "rtOn", ws, <<event, callback>>)
         /\ Ghosts(c)
    /\ UNCHANGED awaitingPong

RtOff(event, callback) ==
    /\ ~hung
    /\ LET c == [Client EXCEPT !.subscribers = off(@, event, callback)] IN
         /\ Apply(c, stale, "rtOff", ws, <<event, callback>>)
         /\ Ghosts(c)
    /\ UNCHANGED awaitingPong

(* the client hands an application frame to RealtimeService's 'message'    *)
(* listener                                                                *)
RtMessage(frame) ==
    /\ ~hung
    /\ LET c == handleMessage(Client, frame) IN
         /\ Apply(c, stale, "rtMessage", ws, frame)
         /\ Ghosts(c)
    /\ UNCHANGED awaitingPong

NextDispatch ==
    \/ \E e \in ListenEvents, cb \in Callbacks : On(e, cb)
    \/ \E e \in ListenEvents, cb \in Callbacks : Off(e, cb)
    \/ Connect
    \/ CurOpen
    \/ \E code \in {NORMAL_CLOSURE, ABNORMAL_CLOSURE} : CurClosed(code)
    \/ \E frame \in Frames : CurMessage(frame)

SpecDispatch == Init /\ [][NextDispatch]_vars

NextRealtime ==
    \/ \E e \in RtEvents, cb \in RtCallbacks : RtOn(e, cb)
    \/ \E e \in RtEvents, cb \in RtCallbacks : RtOff(e, cb)
    \/ \E frame \in Frames \ {"pong", "malformed"} : RtMessage(frame)

SpecRealtime == Init /\ [][NextRealtime]_vars

(* ---- RealtimeService on top of the client ---- *)
(* setupWebSocket, called by the constructor *)
setupWebSocket(registry) ==
    on(on(on(on(registry, "connected", "rtConnected"),
             "disconnected", "rtDisconnected"),
          "message", "rtMessage"),
       "error", "rtError")

rtConnect(c) == IF ~c.rtIsConnected THEN connect(c) ELSE c

rtDisconnect(c) ==
    [disconnect([c EXCEPT !.rtReconnectTimer = FALSE])
        EXCEPT !.rtIsConnected = FALSE]

(* the callback of the timer of scheduleReconnect *)
rtReconnectTimeout(c) ==
    LET c0 == [c EXCEPT !.rtReconnectTimer = FALSE]
    IN  IF ~c0.rtIsConnected THEN rtConnect(c0) ELSE c0

InitServices ==
    /\ Constructed
    /\ listeners = setupWebSocket([e \in WsEvents |-> <<>>])

RtConnect ==
    /\ ~hung
    /\ LET c == rtConnect(Client) IN
         /\ Apply(c, stale, "rtConnect", ws, "none")
         /\ awaitingPong' = (awaitingPong /\ ~c.created)
    /\ torn' = FALSE
    /\ maxReached' = 0

RtDisconnect ==
    /\ ~hung
    /\ Apply(rtDisconnect(Client), stale, "rtDisconnect", ws, "none")
    /\ awaitingPong' = FALSE
    /\ torn' = TRUE
    /\ UNCHANGED maxReached

RtReconnectTimerFires ==
    /\ ~hung
    /\ rtReconnectTimer
    /\ LET c == rtReconnectTimeout(Client) IN
         /\ Apply(c, stale, "rtReconnectTimer", ws, "none")
         /\ Ghosts(c)
         /\ awaitingPong' = (awaitingPong /\ ~c.created)

NextServices ==
    \/ RtConnect
    \/ RtDisconnect
    \/ RtReconnectTimerFires
    \/ ConnectionTimerFires
    \/ ReconnectTimerFires
    \/ CurOpen
    \/ StaleOpen
    \/ \E code \in {NORMAL_CLOSURE, ABNORMAL_CLOSURE} : CurClosed(code)
    \/ \E s \in LiveSockets, code \in {NORMAL_CLOSURE, ABNORMAL_CLOSURE} :
           StaleClosed(s, code)

SpecServices == InitServices /\ [][NextServices]_vars

(* ---- ChatService on top of the shared client ---- *)
(* initWebSocket() of utils/websocket: the shared client, after connect() *)
initWebSocket(c) == connect(c)

(* ChatService.initWebSocket: takes the shared client and registers its    *)
(* four listeners                                                          *)
chatInitWebSocket(c) ==
    LET c1 == [initWebSocket(c) EXCEPT !.chatWsClient = TRUE]
    IN  [c1 EXCEPT !.listeners =
            on(on(on(on(@, "connected", "chatConnected"),
                     "disconnected", "chatDisconnected"),
                  "message", "chatMessage"),
               "error", "chatError")]

chatReconnect(c) ==
    chatInitWebSocket(IF c.chatWsClient THEN disconnect(c) ELSE c)

chatDestroy(c) == IF c.chatWsClient THEN disconnect(c) ELSE c

(* initialize(), from the point where loadAgents() has resolved *)
ChatInitialize ==
    /\ ~hung
    /\ LET c == chatInitWebSocket(Client) IN
         /\ Len(c.listeners["message"]) <= MaxInits
         /\ Apply(c, stale, "chatInitialize", ws, "none")
         /\ awaitingPong' = (awaitingPong /\ ~c.created)
    /\ torn' = FALSE
    /\ maxReached' = 0

ChatReconnect ==
    /\ ~hung
    /\ LET c == chatReconnect(Client) IN
         /\ Len(c.listeners["message"]) <= MaxInits
         /\ Apply(c, stale, "chatReconnect", ws, "none")
    /\ awaitingPong' = FALSE
    /\ torn' = FALSE
    /\ maxReached' = 0

ChatDestroy ==
    /\ ~hung
    /\ Apply(chatDestroy(Client), stale, "chatDestroy", ws, "none")
    /\ awaitingPong' = FALSE
    /\ torn' = chatWsClient
    /\ UNCHANGED maxReached

NextChat ==
    \/ ChatInitialize
    \/ ChatReconnect
    \/ ChatDestroy
    \/ ReconnectTimerFires
    \/ CurOpen
    \/ \E code \in {NORMAL_CLOSURE, ABNORMAL_CLOSURE} : CurClosed(code)
    \/ \E s \in LiveSockets, code \in {NORMAL_CLOSURE, ABNORMAL_CLOSURE} :
           StaleClosed(s, code)
    \/ \E frame \in {"chat_response", "app"} : CurMessage(frame)

SpecChat == Init /\ [][NextChat]_vars

(* ---- an outage: messages queued while closed, 'connected' listeners,    *)
(* and an 'error' listener that throws                                     *)
NextOutage ==
    \/ \E cb \in {Sender, "f"} : On("connected", cb)
    \/ On("error", "thrower")
    \/ \E data \in Data : Send(data)
    \/ Connect
    \/ ReconnectTimerFires
    \/ CurOpen
    \/ \E code \in {NORMAL_CLOSURE, ABNORMAL_CLOSURE} : CurClosed(code)

SpecOutage == Init /\ [][NextOutage]_vars

(* ---- recovery: the server accepts every attempt (a CONNECTING socket    *)
(* opens before its timeout and does not fail), an OPEN connection can     *)
(* drop, the caller does not call disconnect().  The timers and the        *)
(* socket's open event fire eventually.                                    *)
Dropped(code) ==
    /\ ws.readyState = "OPEN"
    /\ CurClosed(code)

NextRecovery ==
    \/ \E cb \in Callbacks : On("disconnected", cb)
    \/ \E data \in Data : Send(data)
    \/ Connect
    \/ HeartbeatFires
    \/ ReconnectTimerFires
    \/ CurOpen
    \/ \E code \in {NORMAL_CLOSURE, ABNORMAL_CLOSURE} : Dropped(code)

SpecRecovery ==
    /\ Init
    /\ [][NextRecovery]_vars
    /\ WF_vars(ReconnectTimerFires)
    /\ WF_vars(CurOpen)

TypeOK ==
    /\ ws \in LiveSockets \cup {NoSocket, ClosedSocket}
    /\ isConnecting \in BOOLEAN
    /\ reconnectAttempts \in 0..maxReconnectAttempts
    /\ connectionTimer \in {"null", "armed", "fired"}
    /\ heartbeatTimer \in BOOLEAN
    /\ reconnectTimers \in 0..MaxTimers
    /\ Len(messageQueue) <= MaxQueue
    /\ StaleTotal(stale) <= MaxStale
    /\ DOMAIN listeners = WsEvents /\ DOMAIN subscribers = RtEvents
    /\ \A e \in WsEvents : \A i \in 1..Len(listeners[e]) :
           listeners[e][i] \in Callbacks \cup {Sender} \cup RtListeners
                                \cup ChatListeners
    /\ \A e \in RtEvents : \A i \in 1..Len(subscribers[e]) :
           subscribers[e][i] \in RtCallbacks
    /\ rtIsConnected \in BOOLEAN /\ rtReconnectTimer \in BOOLEAN
    /\ chatWsClient \in BOOLEAN

(* ---- what a step did, read off the bookkeeping of the last task ---- *)
ActiveSockets ==
    (IF ws.readyState \in {"CONNECTING", "OPEN"} THEN 1 ELSE 0)
    + stale[NewSocket] + stale[OpenSocket]

LastEmitted(event) ==
    \E i \in 1..Len(last.emitted) : last.emitted[i] = event

Transmittable(q) == SelectSeq(q, LAMBDA d : d # Circular)

(* the result send() gives when the transmission itself fails *)
FailedResult == "false"

(* C1: at most one socket created by the client is CONNECTING or OPEN in   *)
(* any reachable state, so connect() never creates a socket while an       *)
(* earlier one is still CONNECTING or OPEN.                                *)
C1_AtMostOneActiveSocket == ActiveSockets <= 1

(* C2: on every OPEN transition the queued messages are handed to the      *)
(* transport in submission order, each exactly once, and the queue is left *)
(* empty (payloads that cannot be serialised aside).                       *)
C2_FlushFifoExactlyOnce ==
    [][last'.op = "onopen"
         => /\ ~hung'
            /\ messageQueue' = <<>>
            /\ last'.transmitted = Transmittable(messageQueue)]_vars

(* C3: once disconnect() has returned, no timer or socket callback creates *)
(* a connection or transmits a frame; only an explicit connect() creates   *)
(* the next socket.                                                        *)
C3_NoResurrectionAfterDisconnect ==
    [][torn /\ last'.op \notin {"connect", "disconnect", "send"}
         => ~last'.created /\ last'.transmitted = <<>>]_vars

(* C4: the close event of a socket that disconnect() closed (whether it    *)
(* was OPEN or CONNECTING at that time) neither increments the attempt     *)
(* count nor schedules a reconnect timer.                                  *)
C4_DisconnectNeverReconnects ==
    [][last'.op = "onclose" /\ last'.sock.byDisconnect
         => /\ reconnectAttempts' = reconnectAttempts
            /\ reconnectTimers' = reconnectTimers]_vars

(* C5: max_reconnect_reached is emitted at most once until connect() is    *)
(* called again; once emitted, no reconnect timer is pending and only an   *)
(* explicit connect() creates a socket.                                    *)
C5_ExhaustionOnceAndFinal ==
    [][/\ maxReached' <= 1
       /\ (maxReached' >= 1 => reconnectTimers' = 0)
       /\ (maxReached >= 1 /\ last'.created => last'.op = "connect")]_vars

(* C6: an explicit connect() after exhaustion resets the attempt counter   *)
(* to 0.                                                                   *)
C6_ConnectResetsAttempts ==
    [][maxReached >= 1 /\ last'.op = "connect" => reconnectAttempts' = 0]_vars

(* C7: when the heartbeat interval fires on an OPEN connection whose last  *)
(* ping has not been answered by a pong, the client closes the connection  *)
(* and invokes the reconnection policy.                                    *)
C7_MissedPongForcesReconnect ==
    [][last'.op = "heartbeat" /\ awaitingPong /\ ws.readyState = "OPEN"
         => /\ ws'.readyState \in {"CLOSING", "CLOSED"}
            /\ \/ reconnectAttempts' = reconnectAttempts + 1
               \/ \E i \in 1..Len(last'.emitted) :
                      last'.emitted[i] = "max_reconnect_reached"]_vars

(* C8: send() on an OPEN connection transmits the message and returns      *)
(* success; in every other state it appends the message to the queue,      *)
(* transmits nothing and returns a result other than that of a failed      *)
(* transmission.                                                           *)
C8_SendResult ==
    [][last'.op = "send"
         => IF ws.readyState = "OPEN"
            THEN \/ /\ Len(last'.transmitted) = 1
                    /\ last'.ret = "true"
                    /\ messageQueue' = messageQueue
                 \/ /\ \E i \in 1..Len(last'.emitted) :
                           last'.emitted[i] = "error"
                    /\ last'.ret = FailedResult
            ELSE /\ \E d \in Data : messageQueue' = Append(messageQueue, d)
                 /\ last'.transmitted = <<>>
                 /\ last'.ret # FailedResult]_vars

(* C9: connect() called while the current socket is CONNECTING or OPEN     *)
(* creates no socket, starts no timer and leaves the attempt count, the    *)
(* queue and the current socket unchanged.                                 *)
C9_ConnectNoOpWhenActive ==
    [][last'.op = "connect" /\ ws.readyState \in {"CONNECTING", "OPEN"}
         => /\ ~last'.created
            /\ UNCHANGED <<ws, isConnecting, reconnectAttempts,
                           connectionTimer, heartbeatTimer, reconnectTimers,
                           messageQueue, stale>>]_vars

(* C10: a second disconnect() right after a first changes nothing, and     *)
(* leaves the client closed and not retrying: no socket, empty queue, no   *)
(* pending connection, heartbeat or reconnect timer.                       *)
C10_DisconnectTwice ==
    [][last.op = "disconnect" /\ last'.op = "disconnect"
         => /\ UNCHANGED <<ws, isConnecting, reconnectAttempts,
                           connectionTimer, heartbeatTimer, reconnectTimers,
                           messageQueue, stale>>
            /\ ws' = NoSocket
            /\ messageQueue' = <<>>
            /\ ~isConnecting'
            /\ connectionTimer' # "armed"
            /\ ~heartbeatTimer'
            /\ reconnectTimers' = 0]_vars

C12_LinearBackoff ==
    [][last'.delay # 0
         => /\ reconnectAttempts' = reconnectAttempts + 1
            /\ reconnectAttempts' \in 1..maxReconnectAttempts
            /\ last'.delay = reconnectInterval * reconnectAttempts'
            /\ last'.delay >= reconnectInterval * reconnectAttempts
            /\ last'.delay <= reconnectInterval * maxReconnectAttempts]_vars

(* the last retry the policy allows is scheduled with the largest delay *)
C12_Witness ==
    /\ last.delay = reconnectInterval * maxReconnectAttempts
    /\ reconnectAttempts = maxReconnectAttempts
    /\ reconnectTimers > 0

(* the callbacks the last task invoked for an event, in order *)
Invoked(l, event) ==
    [i \in 1..Len(SelectSeq(l.invoked, LAMBDA x : x[1] = event)) |->
        SelectSeq(l.invoked, LAMBDA x : x[1] = event)[i][2]]

(* C13: an inbound frame of type 'ping' or 'pong' never invokes a          *)
(* 'message' listener.                                                     *)
C13_HeartbeatFramesHidden ==
    [][(last'.op = "onmessage" /\ last'.arg \in {"ping", "pong"})
       => Invoked(last', "message") = <<>>]_vars

(* C14: a frame that cannot be parsed invokes no 'message' listener,       *)
(* closes nothing and leaves the socket, the attempt count, the queue and  *)
(* the timers as they were.                                                *)
C14_MalformedDiscarded ==
    [][(last'.op = "onmessage" /\ last'.arg = "malformed")
       => /\ Invoked(last', "message") = <<>>
          /\ ~last'.created
          /\ UNCHANGED <<ws, stale, isConnecting, reconnectAttempts,
                         messageQueue, connectionTimer, heartbeatTimer,
                         reconnectTimers>>]_vars

C14_Witness ==
    /\ last.op = "onmessage" /\ last.arg = "malformed"
    /\ listeners["message"] # <<>>
    /\ last.emitted = <<"error">>
    /\ ws = OpenSocket /\ heartbeatTimer

AppFrames == {"task_update", "agent_update", "app"}

Throws(callback) == callback \in {"thrower", "quitThrower"}

Unsubscribes(callback) == callback \in {"quitter", "quitThrower"}

(* C15: with a first subscriber that throws, RealtimeService invokes for a *)
(* task_update or agent_update frame every callback registered for the     *)
(* frame's event, each once and in order of registration.                  *)
C15_ThrowingSubscriberIsolated ==
    [][\A e \in {"task_updated", "agent_updated"} :
          (/\ last'.op = "rtMessage"
           /\ last'.emitted = <<e>>
           /\ subscribers[e] # <<>>
           /\ Throws(subscribers[e][1]))
          => Invoked(last', e) = subscribers[e]]_vars

(* C16: when an application frame is delivered, every 'message' listener   *)
(* registered after a listener that throws is still invoked (no listener   *)
(* unsubscribing meanwhile).                                               *)
C16_ThrowingListenerIsolated ==
    [][(/\ last'.op = "onmessage"
        /\ last'.arg \in AppFrames
        /\ \A i \in 1..Len(listeners["message"]) :
               ~Unsubscribes(listeners["message"][i]))
       => Invoked(last', "message") = listeners["message"]]_vars

(* C17: when the current socket closes with a code other than 1000, the    *)
(* attempt count is below the maximum and a 'disconnected' listener        *)
(* throws, the count is still incremented and a reconnect timer scheduled. *)
C17_ThrowingListenerKeepsReconnect ==
    [][(/\ last'.op = "onclose"
        /\ last'.sock = ws
        /\ last'.arg # NORMAL_CLOSURE
        /\ reconnectAttempts < maxReconnectAttempts
        /\ \E i \in 1..Len(listeners["disconnected"]) :
               Throws(listeners["disconnected"][i]))
       => /\ reconnectAttempts' = reconnectAttempts + 1
          /\ reconnectTimers' = reconnectTimers + 1]_vars

(* C18: when a 'message' listener unsubscribes itself during the dispatch  *)
(* of an application frame (and none throws), every other listener that    *)
(* was registered when the dispatch began is invoked exactly once.         *)
C18_SelfUnsubscribeKeepsOthers ==
    [][(/\ last'.op = "onmessage"
        /\ last'.arg \in AppFrames
        /\ \A i \in 1..Len(listeners["message"]) :
               ~Throws(listeners["message"][i]))
       => SelectSeq(Invoked(last', "message"), LAMBDA cb : ~Unsubscribes(cb))
          = SelectSeq(listeners["message"], LAMBDA cb : ~Unsubscribes(cb))]_vars

(* C19: a frame whose type has no case in handleMessage invokes the        *)
(* subscribers of the 'unknown' channel.                                   *)
C19_UnknownTypeDelivered ==
    [][(/\ last'.op = "rtMessage"
        /\ last'.arg = "app"
        /\ subscribers["unknown"] # <<>>)
       => Invoked(last', "unknown") # <<>>]_vars

(* the list without its k-th element *)
Without(callbacks, k) ==
    SubSeq(callbacks, 1, k - 1) \o SubSeq(callbacks, k + 1, Len(callbacks))

RemovesOne(old, new, callback) ==
    IF \E k \in 1..Len(old) : old[k] = callback
    THEN \E k \in 1..Len(old) : old[k] = callback /\ new = Without(old, k)
    ELSE new = old

(* C20: off(event, cb) removes one registration of cb for that event and   *)
(* keeps the others in their order; every other event's list, and the      *)
(* list itself when cb is not registered, is unchanged, and nothing is     *)
(* thrown. The same for RealtimeService.off.                               *)
C20_OffRemovesExactlyOne ==
    [][/\ last'.op = "off"
          => /\ RemovesOne(listeners[last'.arg[1]], listeners'[last'.arg[1]],
                           last'.arg[2])
             /\ \A e \in WsEvents \ {last'.arg[1]} :
                    listeners'[e] = listeners[e]
             /\ subscribers' = subscribers
             /\ ~last'.thrown
       /\ last'.op = "rtOff"
          => /\ RemovesOne(subscribers[last'.arg[1]],
                           subscribers'[last'.arg[1]], last'.arg[2])
             /\ \A e \in RtEvents \ {last'.arg[1]} :
                    subscribers'[e] = subscribers[e]
             /\ listeners' = listeners
             /\ ~last'.thrown]_vars

C20_Witness ==
    /\ last.op = "off"
    /\ last.arg = <<"message", "f">>
    /\ listeners["message"] = <<"thrower", "f">>

(* the socket a connection timeout has closed, before its close event *)
TimedOutSocket == Socket("CLOSING", ABNORMAL_CLOSURE, FALSE)

(* C21: a connection attempt that timed out has invoked the reconnection   *)
(* policy in the timeout callback; the close event of that socket does not *)
(* invoke it again (the attempt count and the pending reconnect timers     *)
(* stay as they are), and at most one reconnect timer is pending.          *)
C21_PolicyOncePerFailure ==
    [][(last'.op = "onclose" /\ last'.sock = TimedOutSocket)
         => /\ reconnectAttempts' = reconnectAttempts
            /\ reconnectTimers' = reconnectTimers
            /\ reconnectTimers' <= 1]_vars

(* C22: where the current socket is OPEN its heartbeat timer is active;    *)
(* where it is CONNECTING its connection timer is pending and the          *)
(* connecting flag is set.                                                 *)
C22_CurrentSocketKeepsItsTimers ==
    /\ ws.readyState = "OPEN" => heartbeatTimer
    /\ ws.readyState = "CONNECTING"
          => connectionTimer = "armed" /\ isConnecting

(* C23: after RealtimeService.disconnect() the close event of the socket   *)
(* it closed leaves no RealtimeService reconnect timer pending, and no     *)
(* socket is created until connect() is called.                            *)
C23_NoReconnectAfterServiceDisconnect ==
    [][/\ (last'.op = "onclose" /\ last'.sock.byDisconnect /\ torn)
          => ~rtReconnectTimer'
       /\ (torn /\ last'.op = "rtReconnectTimer") => ~last'.created]_vars

(* C24: once max_reconnect_reached has been emitted, only an explicit      *)
(* connect() creates a socket.                                             *)
C24_NoAttemptAfterExhaustion ==
    [][(maxReached >= 1 /\ last'.created) => last'.op = "rtConnect"]_vars

(* how often the last task called a ChatService config callback *)
Notified(l, name) == Len(SelectSeq(l.notified, LAMBDA x : x = name))

(* C25: with one ChatService on the client, whatever calls of              *)
(* initialize(), reconnect() and destroy() came before, a chat_response    *)
(* frame causes at most one onMessage notification, an open at most one    *)
(* onConnected and a close at most one onDisconnected.                     *)
C25_OneNotificationPerEvent ==
    [][/\ (last'.op = "onmessage" /\ last'.arg = "chat_response")
          => Notified(last', "onMessage") <= 1
       /\ last'.op = "onopen" => Notified(last', "onConnected") <= 1
       /\ last'.op = "onclose" => Notified(last', "onDisconnected") <= 1]_vars

Range(q) == {q[i] : i \in 1..Len(q)}

(* what a task may add to the queue or hand to the socket besides what     *)
(* the queue held: the argument of send(), the ping of the heartbeat       *)
Fresh(l) ==
    CASE l.op = "send" -> {l.arg}
      [] l.op = "heartbeat" -> {PingFrame}
      [] OTHER -> {}

(* C26: the queue is empty when disconnect() returns; every message a      *)
(* task transmits was in the queue when the task began or is the one the   *)
(* task itself sends, and the queue only ever grows by the argument of     *)
(* send(): so nothing queued before disconnect() is transmitted later.     *)
C26_DisconnectEmptiesQueue ==
    [][/\ last'.op = "disconnect" => messageQueue' = <<>>
       /\ Range(last'.transmitted) \subseteq Range(messageQueue) \cup Fresh(last')
       /\ Range(messageQueue') \subseteq Range(messageQueue) \cup Fresh(last')]_vars

(* disconnect() called with a and b queued *)
C26_Witness ==
    /\ last.op = "disconnect"
    /\ last.arg = <<"a", "b">>
    /\ messageQueue = <<>>

(* C27: the flush of the queue in onopen always terminates: the event loop *)
(* is never stuck in flushMessageQueue.                                    *)
C27_FlushTerminates == ~hung

(* one snapshot request per call of the sending 'connected' listener *)
Snapshots(l) ==
    [i \in 1..Len(SelectSeq(Invoked(l, "connected"),
                            LAMBDA cb : cb = Sender)) |-> Snapshot]

(* C28: when the current socket opens and a 'connected' listener runs,     *)
(* the queued messages have been handed to the socket in order before it   *)
(* and the queue is empty: what a 'connected' listener sends follows       *)
(* every message of the queue.                                             *)
C28_FlushBeforeConnected ==
    [][(/\ ws.readyState = "CONNECTING" /\ ws'.readyState = "OPEN"
        /\ Invoked(last', "connected") # <<>>)
         => /\ last'.transmitted
                  = Transmittable(messageQueue) \o Snapshots(last')
            /\ messageQueue' = <<>>]_vars

(* a and b were queued and a 'connected' listener sent its request *)
C28_Witness ==
    /\ last.op = "onopen"
    /\ last.transmitted = <<"a", "b", Snapshot>>
    /\ Invoked(last, "connected") = <<Sender>>

(* C29: the close event of a socket that never opened emits no             *)
(* 'disconnected': 'disconnected' is emitted only for a connection that    *)
(* emitted 'connected' before.                                             *)
C29_DisconnectedOnlyAfterConnected ==
    [][(last'.op = "onclose" /\ last'.sock.readyState = "CONNECTING")
         => \A i \in 1..Len(last'.emitted) :
                last'.emitted[i] # "disconnected"]_vars

(* C30: after an OPEN connection has closed with a code other than 1000,   *)
(* the client is eventually OPEN again with attempt count 0.               *)
C30_RecoversAfterDrop ==
    (/\ last.op = "onclose"
     /\ last.sock = OpenSocket
     /\ last.arg = ABNORMAL_CLOSURE)
    ~> (ws = OpenSocket /\ reconnectAttempts = 0)

====
